---- MODULE Spec2Model ----
(***************************************************************************)
(* Model of src/scraping.py: a recursive, depth-bounded, same-netloc       *)
(* crawler with a robots.txt cache and a line-based robots.txt evaluator.  *)
(*                                                                         *)
(* Strings the code inspects character by character (robots.txt texts,    *)
(* URL paths) are sequences of one-character strings.  A URL is the       *)
(* record urlparse() makes of it: [scheme, netloc, path].                  *)
(***************************************************************************)
EXTENDS Integers, Sequences, FiniteSets, TLC

VARIABLES
    visited_urls,    \* module-level set of visited URLs            (line 7)
    robots_cache,    \* module-level dict: base_url -> robots text  (line 8)
    url_depth_list,  \* the list main passes to crawl_site          (line 173)
    stack,           \* call stack of crawl_site activations, top last
    phase,           \* position of main: "init","crawling","returned","saved";
                     \* "off" when main is not run
    seed,            \* argument url of the top-level crawl_site call
    depth,           \* argument depth of the crawl_site calls
    run,             \* number of the invocation of main in this process: 1, 2
    site,            \* the crawled site: the URLs its pages can link to (hrefs)
                     \* and the texts its robots.txt can hold (robots)
    csv,             \* rows written by save_urls_to_csv
    \* ---- observation of the run (history, not read by the program) ----
    pageGets,        \* URL -> number of requests.get(url) in scrape_links
    robotsGets,      \* base_url -> number of requests.get(robots_url)
    robotsFor,       \* URL -> what fetch_robots_txt returned for it, and how
    scraped,         \* URL -> what scrape_links returned for it, and how
    parent,          \* URL -> URL of the activation that called crawl_site on it
    calls,           \* set of <<page, link>>: recursive calls made at line 164
    hrefsServed,     \* number of <a href> elements the site has served so far
    \* ---- stand-alone evaluation of is_allowed_by_robots ----
    r_url, r_text,   \* the arguments
    r_lines, r_i,    \* robots_txt.splitlines() and the loop position
    user_agent_allowed, disallowed_paths, allowed_paths,  \* lines 55-57
    r_pc, r_result   \* "idle","parse","decide","done" and the returned value

crawlVars == <<visited_urls, robots_cache, url_depth_list, stack, phase, seed,
               depth, csv, pageGets, robotsGets, robotsFor, scraped, parent, calls,
               hrefsServed, run, site>>
robotsVars == <<r_url, r_text, r_lines, r_i, user_agent_allowed,
                disallowed_paths, allowed_paths, r_pc, r_result>>
vars == <<crawlVars, robotsVars>>

(***************************************************************************)
(* Bounds of the model.                                                    *)
(***************************************************************************)
MaxDepth == 2      \* depth argument ranges over -1 .. MaxDepth
MaxLinks == 2      \* a page holds at most MaxLinks <a href> elements
MaxHrefs == 4      \* the pages served in a run hold at most MaxHrefs in total
MaxLines == 3      \* a robots.txt given to the evaluator has 1 .. MaxLines lines

(***************************************************************************)
(* Strings as sequences of characters, and the str methods the code uses.  *)
(***************************************************************************)
NL == "\n"
SP == " "

\* str.startswith with the empty prefix matching nothing
StartsWith_NonEmptyPrefix(s, p) ==
    /\ p # <<>>
    /\ Len(p) <= Len(s)
    /\ \A k \in 1..Len(p) : s[k] = p[k]

\* str.startswith
StartsWith(s, p) ==
    /\ Len(p) <= Len(s)
    /\ \A k \in 1..Len(p) : s[k] = p[k]

\* str.strip, for the whitespace the inputs contain: the part from the
\* first to the last character that is no whitespace
Strip(s) ==
    LET K == {k \in 1..Len(s) : s[k] \notin {SP, NL}} IN
    IF K = {} THEN <<>>
    ELSE SubSeq(s, CHOOSE k \in K : \A j \in K : k <= j,
                   CHOOSE k \in K : \A j \in K : j <= k)

\* str.split(sep): the list of the fields between the occurrences of sep
Split(s, sep) ==
    LET P == {k \in 1..Len(s) : s[k] = sep}
        n == Cardinality(P)
        \* the position of the j-th sep, between those of a 0-th and a last one
        At(j) == IF j = 0 THEN 0
                 ELSE IF j = n + 1 THEN Len(s) + 1
                 ELSE CHOOSE k \in P : Cardinality({m \in P : m <= k}) = j
    IN  [j \in 1..(n + 1) |-> SubSeq(s, At(j - 1) + 1, At(j) - 1)]

\* str.splitlines: like split on the line break, but an empty text has no
\* lines and a final line break opens no further line
SplitLines(s) ==
    IF s = <<>> THEN <<>>
    ELSE IF s[Len(s)] = NL THEN Split(SubSeq(s, 1, Len(s) - 1), NL)
    ELSE Split(s, NL)

(***************************************************************************)
(* URLs.  Url(scheme, netloc, path) is the URL string that urlparse()      *)
(* splits into these three components.                                     *)
(***************************************************************************)
Url(s, n, p) == [scheme |-> s, netloc |-> n, path |-> p]

A   == Url("https", "h", <<"/">>)            \* https://h/
B   == Url("https", "h", <<"/", "p">>)       \* https://h/p
C   == Url("https", "h", <<"/", "q">>)       \* https://h/q
X   == Url("http", "h", <<"/", "q">>)        \* http://h/q  (same host, other scheme)
Y   == Url("https", "h:8443", <<"/">>)       \* https://h:8443/ (same host, other port)
Bad == Url("", "", <<"x">>)                  \* "x": no scheme, no host

Hrefs  == {A, B, X, Y}            \* what urljoin(url, href) can yield on a page
HrefsWide == {A, B, C, X}         \* the same for a site of four pages on one host
URLs   == {A, B, C, X, Y, Bad}
Seeds  == {A, Bad}
None   == "None"
NoUrl  == Url("", "", <<>>)      \* stands for "no caller" among URLs

\* requests only sends a request for an http(s) URL naming a host; for any
\* other string requests.get raises MissingSchema / InvalidURL, which are
\* RequestException subclasses
ValidUrl(u) == u.scheme \in {"http", "https"} /\ u.netloc # ""

\* base_url = f"{parsed_url.scheme}://{parsed_url.netloc}"
BaseUrl(u) == <<u.scheme, u.netloc>>
BaseUrls == {BaseUrl(u) : u \in URLs}

(***************************************************************************)
(* robots.txt material.                                                    *)
(***************************************************************************)
UA_STAR  == <<"U","s","e","r","-","a","g","e","n","t",":"," ","*">>
DISALLOW == <<"D","i","s","a","l","l","o","w",":">>
ALLOW    == <<"A","l","l","o","w",":">>
COLON    == ":"

L_UaStar      == UA_STAR
L_UaBot       == <<"U","s","e","r","-","a","g","e","n","t",":"," ","b">>
L_DisP        == DISALLOW \o <<" ", "/", "p">>
L_DisRoot     == DISALLOW \o <<" ", "/">>
L_DisEmpty    == DISALLOW
L_DisColon    == DISALLOW \o <<" ", "/", "a", ":", "b">>
L_AllowPX     == <<" ">> \o ALLOW \o <<" ", "/", "p", "/", "x", " ">>
L_AllowP      == ALLOW \o <<"/", "p">>

RobotsLines == {L_UaStar, L_UaBot, L_DisP, L_DisRoot, L_DisEmpty, L_DisColon,
                L_AllowPX, L_AllowP}

RECURSIVE JoinLines(_)
JoinLines(ls) ==
    IF ls = <<>> THEN <<>>
    ELSE IF Len(ls) = 1 THEN ls[1]
    ELSE ls[1] \o <<NL>> \o JoinLines(Tail(ls))

\* sequences over S of length lo .. hi
SeqsOf(S, lo, hi) == UNION {[1..n -> S] : n \in lo..hi}

\* the robots.txt texts the stand-alone evaluation is run on
RobotsInputs == {JoinLines(ls) : ls \in SeqsOf(RobotsLines, 1, MaxLines)}

\* the URLs the stand-alone evaluation is run on
RobotsUrls == {A, B, C,
               Url("https", "h", <<"/", "p", "/", "x">>),
               Url("https", "h", <<"/", "a", "x">>),
               Url("https", "h", <<"/", "a", ":", "b">>)}

\* the bodies a server answers GET /robots.txt with during a crawl
T_Empty      == <<>>
T_DisP       == JoinLines(<<L_UaStar, L_DisP>>)
T_DisRoot    == JoinLines(<<L_UaStar, L_DisRoot>>)
T_AllowDis   == JoinLines(<<L_UaStar, L_AllowP, L_DisRoot>>)
T_AllowDisEmpty == JoinLines(<<L_UaStar, L_AllowP, L_DisEmpty>>)
RobotsTexts  == {T_Empty, T_DisP, T_DisRoot, T_AllowDis, T_AllowDisEmpty}

(***************************************************************************)
(* is_allowed_by_robots (lines 40-80).                                     *)
(***************************************************************************)
\* lines 55-57
ParseInit == [ua |-> FALSE, dis |-> <<>>, allow |-> <<>>]

\* lines 60-68 with a User-agent line naming another agent ending the group
ParseLine_ResetOnOtherAgent(st, raw) ==
    LET line == Strip(raw) IN
    IF StartsWith(line, UA_STAR) THEN [st EXCEPT !.ua = TRUE]
    ELSE IF StartsWith(line, SubSeq(UA_STAR, 1, 11)) THEN [st EXCEPT !.ua = FALSE]
    ELSE IF StartsWith(line, DISALLOW) /\ st.ua
        THEN [st EXCEPT !.dis = Append(@, Strip(Split(line, COLON)[2]))]
    ELSE IF StartsWith(line, ALLOW) /\ st.ua
        THEN [st EXCEPT !.allow = Append(@, Strip(Split(line, COLON)[2]))]
    ELSE st

\* the body of the loop over the lines, lines 60-68; Python's split(":")[1]
\* is the second field, index 2 here
ParseLine(st, raw) ==
    LET line == Strip(raw) IN
    IF StartsWith(line, UA_STAR) THEN [st EXCEPT !.ua = TRUE]
    ELSE IF StartsWith(line, DISALLOW) /\ st.ua
        THEN [st EXCEPT !.dis = Append(@, Strip(Split(line, COLON)[2]))]
    ELSE IF StartsWith(line, ALLOW) /\ st.ua
        THEN [st EXCEPT !.allow = Append(@, Strip(Split(line, COLON)[2]))]
    ELSE st

\* lines 59-68
RECURSIVE ParseLines(_, _)
ParseLines(st, lines) ==
    IF lines = <<>> THEN st ELSE ParseLines(ParseLine(st, Head(lines)), Tail(lines))

\* "for p in paths: if path.startswith(p): return ..." reaches its return
RECURSIVE LoopHits(_, _)
LoopHits(path, paths) ==
    IF paths = <<>> THEN FALSE
    ELSE IF StartsWith(path, Head(paths)) THEN TRUE
    ELSE LoopHits(path, Tail(paths))

\* lines 70-80 with the two loops in the other order
Decide_DisallowFirst(path, st) ==
    IF LoopHits(path, st.dis) THEN FALSE
    ELSE IF LoopHits(path, st.allow) THEN TRUE
    ELSE TRUE

\* lines 70-80
Decide(path, st) ==
    IF LoopHits(path, st.allow) THEN TRUE
    ELSE IF LoopHits(path, st.dis) THEN FALSE
    ELSE TRUE

is_allowed_by_robots(url, robots_txt) ==
    \E st \in {ParseLines(ParseInit, SplitLines(robots_txt))} : Decide(url.path, st)

\* is_allowed_by_robots on the texts and URLs of a crawl, evaluated once
RobotsAllows ==
    [robots_txt \in RobotsTexts |-> [url \in URLs |-> is_allowed_by_robots(url, robots_txt)]]

(***************************************************************************)
(* Stand-alone evaluation of is_allowed_by_robots, one loop turn a step.   *)
(***************************************************************************)
ParseState == [ua |-> user_agent_allowed, dis |-> disallowed_paths,
               allow |-> allowed_paths]

\* lines 51-59: entry, the three locals, splitlines
R_Call ==
    /\ r_pc = "idle"
    /\ r_lines' = SplitLines(r_text)
    /\ r_i' = 1
    /\ user_agent_allowed' = ParseInit.ua
    /\ disallowed_paths' = ParseInit.dis
    /\ allowed_paths' = ParseInit.allow
    /\ r_pc' = "parse"
    /\ UNCHANGED <<r_url, r_text, r_result, crawlVars>>

\* lines 59-68: one turn of the loop over the lines
R_Line ==
    /\ r_pc = "parse"
    /\ r_i <= Len(r_lines)
    /\ LET st == ParseLine(ParseState, r_lines[r_i]) IN
        /\ user_agent_allowed' = st.ua
        /\ disallowed_paths' = st.dis
        /\ allowed_paths' = st.allow
    /\ r_i' = r_i + 1
    /\ UNCHANGED <<r_url, r_text, r_lines, r_pc, r_result, crawlVars>>

\* lines 70-80: the two loops over the collected prefixes and the return
R_Decide ==
    /\ r_pc = "parse"
    /\ r_i > Len(r_lines)
    /\ r_result' = Decide(r_url.path, ParseState)
    /\ r_pc' = "done"
    /\ UNCHANGED <<r_url, r_text, r_lines, r_i, user_agent_allowed,
                   disallowed_paths, allowed_paths, crawlVars>>

(***************************************************************************)
(* The crawl: main and the activations of crawl_site.                      *)
(***************************************************************************)
Frame(u, d) == [url |-> u, current_depth |-> d, links |-> <<>>, i |-> 1,
                pc |-> "entry"]

Top == stack[Len(stack)]
SetTop(f) == [stack EXCEPT ![Len(stack)] = f]

\* return from the running activation; the top-level one returns to main
Return ==
    /\ stack' = SubSeq(stack, 1, Len(stack) - 1)
    /\ phase' = IF Len(stack) = 1 THEN "returned" ELSE phase

Running(pc) == phase = "crawling" /\ stack # <<>> /\ Top.pc = pc

\* lines 173-176: main makes the list and calls crawl_site(url, depth, 0, list)
MainCall ==
    /\ phase = "init"
    /\ url_depth_list' = <<>>
    /\ stack' = <<Frame(seed, 0)>>
    /\ phase' = "crawling"
    /\ UNCHANGED <<visited_urls, robots_cache, seed, depth, csv, pageGets,
                   robotsGets, robotsFor, scraped, parent, calls, hrefsServed, run,
                   site, robotsVars>>

\* lines 139-142 with the depth test off by one
EntryCheck_OffByOne(url, current_depth) ==
    /\ url \notin visited_urls
    /\ ~(current_depth > depth + 1)

\* lines 139-142: neither early return is taken
EntryCheck(url, current_depth) ==
    /\ url \notin visited_urls
    /\ ~(current_depth > depth)

\* lines 139-142 with the append of line 150 made before the two checks
CrawlSkip_AppendsFirst ==
    /\ Running("entry")
    /\ ~EntryCheck(Top.url, Top.current_depth)
    /\ url_depth_list' = Append(url_depth_list, <<Top.url, Top.current_depth>>)
    /\ Return
    /\ UNCHANGED <<visited_urls, robots_cache, seed, depth, csv,
                   pageGets, robotsGets, robotsFor, scraped, parent, calls,
                   hrefsServed, run, site, robotsVars>>

\* lines 139-142: one of the two early returns is taken
CrawlSkip ==
    /\ Running("entry")
    /\ ~EntryCheck(Top.url, Top.current_depth)
    /\ Return
    /\ UNCHANGED <<visited_urls, robots_cache, url_depth_list, seed, depth, csv,
                   pageGets, robotsGets, robotsFor, scraped, parent, calls,
                   hrefsServed,
                   run, site, robotsVars>>

\* lines 139-150 with the depth of the callee appended at line 150
CrawlAccept_RecordsNextDepth ==
    /\ Running("entry")
    /\ EntryCheck(Top.url, Top.current_depth)
    /\ visited_urls' = visited_urls \cup {Top.url}
    /\ url_depth_list' = Append(url_depth_list, <<Top.url, Top.current_depth + 1>>)
    /\ parent' = [parent EXCEPT ![Top.url] =
                    IF Len(stack) = 1 THEN NoUrl ELSE stack[Len(stack) - 1].url]
    /\ stack' = SetTop([Top EXCEPT !.pc = "robots"])
    /\ UNCHANGED <<robots_cache, phase, seed, depth, csv, pageGets, robotsGets,
                   robotsFor, scraped, calls, hrefsServed,
                   run, site, robotsVars>>

\* lines 139-150 without the visited_urls.add of line 147
CrawlAccept_NoMark ==
    /\ Running("entry")
    /\ EntryCheck(Top.url, Top.current_depth)
    /\ url_depth_list' = Append(url_depth_list, <<Top.url, Top.current_depth>>)
    /\ parent' = [parent EXCEPT ![Top.url] =
                    IF Len(stack) = 1 THEN NoUrl ELSE stack[Len(stack) - 1].url]
    /\ stack' = SetTop([Top EXCEPT !.pc = "robots"])
    /\ UNCHANGED <<visited_urls, robots_cache, phase, seed, depth, csv, pageGets,
                   robotsGets, robotsFor, scraped, calls, hrefsServed,
                   run, site, robotsVars>>

\* lines 139-150: the checks pass; mark visited, append (url, current_depth)
CrawlAccept ==
    /\ Running("entry")
    /\ EntryCheck(Top.url, Top.current_depth)
    /\ visited_urls' = visited_urls \cup {Top.url}
    /\ url_depth_list' = Append(url_depth_list, <<Top.url, Top.current_depth>>)
    /\ parent' = [parent EXCEPT ![Top.url] =
                    IF Len(stack) = 1 THEN NoUrl ELSE stack[Len(stack) - 1].url]
    /\ stack' = SetTop([Top EXCEPT !.pc = "robots"])
    /\ UNCHANGED <<robots_cache, phase, seed, depth, csv, pageGets, robotsGets,
                   robotsFor, scraped, calls, hrefsServed,
                   run, site, robotsVars>>

\* lines 154-156 with the return of line 156 left out
RobotsVerdict_IgnoreDeny(robots_txt, how) ==
    /\ robotsFor' = [robotsFor EXCEPT ![Top.url] = [how |-> how, text |-> robots_txt]]
    /\ stack' = SetTop([Top EXCEPT !.pc = "scrape"])
    /\ phase' = phase

\* lines 154-156: with robots_txt as fetch_robots_txt returned it, either
\* return (denied) or go on to scrape_links
RobotsVerdict(robots_txt, how) ==
    /\ robotsFor' = [robotsFor EXCEPT ![Top.url] = [how |-> how, text |-> robots_txt]]
    /\ IF robots_txt # <<>> /\ ~RobotsAllows[robots_txt][Top.url]
       THEN Return
       ELSE /\ stack' = SetTop([Top EXCEPT !.pc = "scrape"])
            /\ phase' = phase

\* lines 20-24 and 154-156: the cache answers
RobotsCacheHit ==
    /\ Running("robots")
    /\ BaseUrl(Top.url) \in DOMAIN robots_cache
    /\ RobotsVerdict(robots_cache[BaseUrl(Top.url)], "cache")
    /\ UNCHANGED <<visited_urls, robots_cache, url_depth_list, seed, depth, csv,
                   pageGets, robotsGets, scraped, parent, calls, hrefsServed,
                   run, site, robotsVars>>

\* lines 20-33 and 154-156: GET robots.txt succeeds; the text is cached
RobotsFetchOk ==
    /\ Running("robots")
    /\ BaseUrl(Top.url) \notin DOMAIN robots_cache
    /\ ValidUrl(Top.url)
    /\ \E robots_txt \in site.robots :
        /\ robots_cache' = [b \in DOMAIN robots_cache \cup {BaseUrl(Top.url)} |->
                              IF b = BaseUrl(Top.url) THEN robots_txt
                              ELSE robots_cache[b]]
        /\ RobotsVerdict(robots_txt, "get_ok")
    /\ robotsGets' = [robotsGets EXCEPT ![BaseUrl(Top.url)] = @ + 1]
    /\ UNCHANGED <<visited_urls, url_depth_list, seed, depth, csv, pageGets,
                   scraped, parent, calls, hrefsServed,
                   run, site, robotsVars>>

\* lines 20-30, 35-37 and 154-156 with a failed GET taken as a denial
RobotsFetchFail_Deny ==
    /\ Running("robots")
    /\ BaseUrl(Top.url) \notin DOMAIN robots_cache
    /\ robotsFor' = [robotsFor EXCEPT ![Top.url] = [how |-> "get_fail", text |-> <<>>]]
    /\ Return
    /\ robotsGets' = [robotsGets EXCEPT ![BaseUrl(Top.url)] = @ + 1]
    /\ UNCHANGED <<visited_urls, robots_cache, url_depth_list, seed, depth, csv,
                   pageGets, scraped, parent, calls, hrefsServed,
                   run, site, robotsVars>>

\* lines 20-30, 35-37 and 154-156: GET robots.txt raises; "" is returned
RobotsFetchFail ==
    /\ Running("robots")
    /\ BaseUrl(Top.url) \notin DOMAIN robots_cache
    /\ RobotsVerdict(<<>>, "get_fail")
    /\ robotsGets' = [robotsGets EXCEPT ![BaseUrl(Top.url)] = @ + 1]
    /\ UNCHANGED <<visited_urls, robots_cache, url_depth_list, seed, depth, csv,
                   pageGets, scraped, parent, calls, hrefsServed,
                   run, site, robotsVars>>

\* lines 99-103 without the test of line 102: every link is kept
SameNetloc_NoFilter(url, hrefs) == hrefs

\* lines 99-103: keep the links whose netloc is the page's
SameNetloc(url, hrefs) == SelectSeq(hrefs, LAMBDA l : l.netloc = url.netloc)

\* the lists urljoin(url, href) yields over the <a href> of a page
PageHrefs == SeqsOf(site.hrefs, 0, MaxLinks)

\* line 159 with the loop of line 162 running over reversed(links)
ScrapeOk_ReversedLoop ==
    /\ Running("scrape")
    /\ ValidUrl(Top.url)
    /\ \E hrefs \in PageHrefs :
        LET links == SameNetloc(Top.url, hrefs)
            n     == Len(links)
            rev   == [k \in 1..n |-> links[n + 1 - k]] IN
        /\ hrefsServed + Len(hrefs) <= MaxHrefs
        /\ hrefsServed' = hrefsServed + Len(hrefs)
        /\ stack' = SetTop([Top EXCEPT !.links = rev, !.i = 1, !.pc = "loop"])
        /\ scraped' = [scraped EXCEPT ![Top.url] = [how |-> "ok", links |-> links]]
    /\ pageGets' = [pageGets EXCEPT ![Top.url] = @ + 1]
    /\ UNCHANGED <<visited_urls, robots_cache, url_depth_list, phase, seed, depth,
                   csv, robotsGets, robotsFor, parent, calls, run, site,
                   robotsVars>>

\* line 159 with lines 93-105: GET url succeeds
ScrapeOk ==
    /\ Running("scrape")
    /\ ValidUrl(Top.url)
    /\ \E hrefs \in PageHrefs :
        LET links == SameNetloc(Top.url, hrefs) IN
        /\ hrefsServed + Len(hrefs) <= MaxHrefs
        /\ hrefsServed' = hrefsServed + Len(hrefs)
        /\ stack' = SetTop([Top EXCEPT !.links = links, !.i = 1, !.pc = "loop"])
        /\ scraped' = [scraped EXCEPT ![Top.url] = [how |-> "ok", links |-> links]]
    /\ pageGets' = [pageGets EXCEPT ![Top.url] = @ + 1]
    /\ UNCHANGED <<visited_urls, robots_cache, url_depth_list, phase, seed, depth,
                   csv, robotsGets, robotsFor, parent, calls, run, site,
                   robotsVars>>

\* line 159 with the exception of a failed GET not caught: it unwinds every
\* activation up to main
ScrapeFail_Abort ==
    /\ Running("scrape")
    /\ stack' = <<>>
    /\ phase' = "returned"
    /\ scraped' = [scraped EXCEPT ![Top.url] = [how |-> "fail", links |-> <<>>]]
    /\ pageGets' = [pageGets EXCEPT ![Top.url] = @ + 1]
    /\ UNCHANGED <<visited_urls, robots_cache, url_depth_list, seed, depth,
                   csv, robotsGets, robotsFor, parent, calls, hrefsServed,
                   run, site, robotsVars>>

\* line 159 with lines 93-95, 107-109: GET url raises; [] is returned
ScrapeFail ==
    /\ Running("scrape")
    /\ stack' = SetTop([Top EXCEPT !.links = <<>>, !.i = 1, !.pc = "loop"])
    /\ scraped' = [scraped EXCEPT ![Top.url] = [how |-> "fail", links |-> <<>>]]
    /\ pageGets' = [pageGets EXCEPT ![Top.url] = @ + 1]
    /\ UNCHANGED <<visited_urls, robots_cache, url_depth_list, phase, seed, depth,
                   csv, robotsGets, robotsFor, parent, calls, hrefsServed,
                   run, site, robotsVars>>

\* line 164 with the depth passed on as it is instead of current_depth + 1
LoopRecurse_SameDepth ==
    /\ Running("loop")
    /\ Top.i <= Len(Top.links)
    /\ Top.links[Top.i] \notin visited_urls
    /\ stack' = Append(SetTop([Top EXCEPT !.i = @ + 1]),
                       Frame(Top.links[Top.i], Top.current_depth))
    /\ calls' = calls \cup {<<Top.url, Top.links[Top.i]>>}
    /\ UNCHANGED <<visited_urls, robots_cache, url_depth_list, phase, seed, depth,
                   csv, pageGets, robotsGets, robotsFor, scraped, parent,
                   hrefsServed, run, site, robotsVars>>

\* lines 162-164: the next link is not visited; call crawl_site on it
LoopRecurse ==
    /\ Running("loop")
    /\ Top.i <= Len(Top.links)
    /\ Top.links[Top.i] \notin visited_urls
    /\ stack' = Append(SetTop([Top EXCEPT !.i = @ + 1]),
                       Frame(Top.links[Top.i], Top.current_depth + 1))
    /\ calls' = calls \cup {<<Top.url, Top.links[Top.i]>>}
    /\ UNCHANGED <<visited_urls, robots_cache, url_depth_list, phase, seed, depth,
                   csv, pageGets, robotsGets, robotsFor, scraped, parent,
                   hrefsServed,
                   run, site, robotsVars>>

\* lines 162-163 as a loop that only moves on after a call
LoopSkip_NoAdvance ==
    /\ Running("loop")
    /\ Top.i <= Len(Top.links)
    /\ Top.links[Top.i] \in visited_urls
    /\ UNCHANGED vars

\* lines 162-163: the next link is visited already; go on with the loop
LoopSkip ==
    /\ Running("loop")
    /\ Top.i <= Len(Top.links)
    /\ Top.links[Top.i] \in visited_urls
    /\ stack' = SetTop([Top EXCEPT !.i = @ + 1])
    /\ UNCHANGED <<visited_urls, robots_cache, url_depth_list, phase, seed, depth,
                   csv, pageGets, robotsGets, robotsFor, scraped, parent, calls,
                   hrefsServed,
                   run, site, robotsVars>>

\* lines 162-164 with the activation returning after its first link
LoopReturn_AfterFirstLink ==
    /\ Running("loop")
    /\ Top.i > Len(Top.links) \/ Top.i > 1
    /\ Return
    /\ UNCHANGED <<visited_urls, robots_cache, url_depth_list, seed, depth, csv,
                   pageGets, robotsGets, robotsFor, scraped, parent, calls,
                   hrefsServed, run, site, robotsVars>>

\* lines 162-164: the loop is over; the activation returns
LoopReturn ==
    /\ Running("loop")
    /\ Top.i > Len(Top.links)
    /\ Return
    /\ UNCHANGED <<visited_urls, robots_cache, url_depth_list, seed, depth, csv,
                   pageGets, robotsGets, robotsFor, scraped, parent, calls,
                   hrefsServed,
                   run, site, robotsVars>>

\* lines 120-124: the header row, then one row per (url, depth)
save_urls_to_csv(list) == <<<<"URL", "Depth">>>> \o list

\* lines 178-179
MainSave ==
    /\ phase = "returned"
    /\ csv' = save_urls_to_csv(url_depth_list)
    /\ phase' = "saved"
    /\ UNCHANGED <<visited_urls, robots_cache, url_depth_list, stack, seed, depth,
                   pageGets, robotsGets, robotsFor, scraped, parent, calls,
                   hrefsServed,
                   run, site, robotsVars>>

(***************************************************************************)
(* Specifications.                                                         *)
(***************************************************************************)
\* lines 7-8 and the state before main runs
CrawlIdle ==
    /\ visited_urls = {}
    /\ robots_cache = <<>>
    /\ url_depth_list = <<>>
    /\ stack = <<>>
    /\ csv = <<>>
    /\ run = 1
    /\ pageGets = [u \in URLs |-> 0]
    /\ robotsGets = [b \in BaseUrls |-> 0]
    /\ robotsFor = [u \in URLs |-> [how |-> "none", text |-> <<>>]]
    /\ scraped = [u \in URLs |-> [how |-> "none", links |-> <<>>]]
    /\ parent = [u \in URLs |-> NoUrl]
    /\ calls = {}
    /\ hrefsServed = 0

RobotsIdle ==
    /\ r_lines = <<>>
    /\ r_i = 1
    /\ user_agent_allowed = FALSE
    /\ disallowed_paths = <<>>
    /\ allowed_paths = <<>>
    /\ r_result = None

\* a crawl of any seed to any depth
Init ==
    /\ CrawlIdle
    /\ phase = "init"
    /\ site = [hrefs |-> Hrefs, robots |-> RobotsTexts]
    /\ seed \in Seeds
    /\ depth \in -1..MaxDepth
    /\ RobotsIdle
    /\ r_pc = "off"
    /\ r_url = A
    /\ r_text = <<>>

Next ==
    \/ MainCall
    \/ CrawlSkip
    \/ CrawlAccept
    \/ RobotsCacheHit
    \/ RobotsFetchOk
    \/ RobotsFetchFail
    \/ ScrapeOk
    \/ ScrapeFail
    \/ LoopRecurse
    \/ LoopSkip
    \/ LoopReturn
    \/ MainSave

Spec == Init /\ [][Next]_vars

\* the code is one thread that runs until main returns
FairSpec == Spec /\ WF_vars(Next)

\* main called a second time in the same process: lines 173-176 again, with
\* the module-level visited_urls and robots_cache as the first call left them
MainAgain ==
    /\ phase = "saved"
    /\ run = 1
    /\ run' = 2
    /\ url_depth_list' = <<>>
    /\ stack' = <<Frame(seed, 0)>>
    /\ phase' = "crawling"
    /\ UNCHANGED <<visited_urls, robots_cache, seed, depth, csv, pageGets,
                   robotsGets, robotsFor, scraped, parent, calls, hrefsServed,
                   site, robotsVars>>

NextTwice ==
    \/ Next
    \/ MainAgain

\* main run up to two times in one process
SpecTwice == Init /\ [][NextTwice]_vars

\* a crawl to depth MaxDepth of a site of four pages on one host
InitWide ==
    /\ CrawlIdle
    /\ phase = "init"
    /\ site = [hrefs |-> HrefsWide, robots |-> {T_DisP}]
    /\ seed = A
    /\ depth = MaxDepth
    /\ RobotsIdle
    /\ r_pc = "off"
    /\ r_url = A
    /\ r_text = <<>>

SpecWide == InitWide /\ [][Next]_vars

\* an evaluation of is_allowed_by_robots on any url and robots text
InitRobots ==
    /\ CrawlIdle
    /\ phase = "off"
    /\ site = [hrefs |-> Hrefs, robots |-> RobotsTexts]
    /\ seed = A
    /\ depth = 0
    /\ RobotsIdle
    /\ r_pc = "idle"
    /\ r_url \in RobotsUrls
    /\ r_text \in RobotsInputs

NextRobots ==
    \/ R_Call
    \/ R_Line
    \/ R_Decide

SpecRobots == InitRobots /\ [][NextRobots]_vars

\* either of the two: a crawl, or an evaluation of is_allowed_by_robots
InitAll == Init \/ InitRobots

NextAll ==
    \/ Next
    \/ NextRobots

SpecAll == InitAll /\ [][NextAll]_vars

(***************************************************************************)
(* Vocabulary of the properties.                                           *)
(***************************************************************************)
Finished == phase \in {"returned", "saved"}

Elems(seq) == {seq[k] : k \in 1..Len(seq)}

\* the positions of url in the record list
RecordsOf(u) == {k \in 1..Len(url_depth_list) : url_depth_list[k][1] = u}

Recorded(u) == RecordsOf(u) # {}

\* the depth url was recorded with (of its first record)
DepthOf(u) == url_depth_list[CHOOSE k \in RecordsOf(u) : \A j \in RecordsOf(u) : k <= j][2]

\* the robots check of url, lines 153-154, came out as a denial
Denied(u) ==
    /\ robotsFor[u].how # "none"
    /\ robotsFor[u].text # <<>>
    /\ ~RobotsAllows[robotsFor[u].text][u]

\* crawl_site was called from the loop of url's activation
CalledFrom(u) == {c \in calls : c[1] = u}

\* the URLs accepted through a call from url's activation
ChildrenOf(u) == {v \in URLs : Recorded(v) /\ parent[v] = u}

(***************************************************************************)
(* C1: within one run started from empty visited state every URL passes    *)
(* the entry check of crawl_site at most once: it has at most one record   *)
(* in the list and at most one page GET is issued for it.                  *)
(***************************************************************************)
C1_VisitedAtMostOnce ==
    \A u \in URLs :
        /\ Cardinality(RecordsOf(u)) <= 1
        /\ pageGets[u] <= 1
        /\ Recorded(u) <=> u \in visited_urls

\* a finished run in which a page links to itself and is linked to from
\* another page as well
C1_Witness ==
    /\ Finished
    /\ \E u, v \in URLs :
        /\ u # v
        /\ u \in Elems(scraped[u].links)
        /\ u \in Elems(scraped[v].links)
        /\ pageGets[u] = 1

(***************************************************************************)
(* C2: every record (u, d) has 0 <= d <= depth; a URL recorded at          *)
(* d = depth has no URL accepted through it; with depth = 0 only the seed  *)
(* is recorded.                                                            *)
(***************************************************************************)
C2_DepthBoundInclusive ==
    /\ \A k \in 1..Len(url_depth_list) :
        LET u == url_depth_list[k][1]
            d == url_depth_list[k][2]
        IN  /\ 0 <= d
            /\ d <= depth
            /\ d = depth => ChildrenOf(u) = {}
    /\ depth = 0 => /\ visited_urls \subseteq {seed}
                    /\ Elems(url_depth_list) \subseteq {<<seed, 0>>}

\* a finished run in which a page recorded at the maximal depth was fetched
\* and called crawl_site on a link that is in no record
C2_Witness ==
    /\ Finished
    /\ depth >= 1
    /\ \E u \in URLs :
        /\ Recorded(u)
        /\ DepthOf(u) = depth
        /\ scraped[u].how = "ok"
        /\ \E c \in CalledFrom(u) : ~Recorded(c[2]) /\ c[2] \notin visited_urls

C4_DeniedRecordedNotExpanded ==
    \A u \in URLs :
        Denied(u) =>
            /\ u \in visited_urls
            /\ Recorded(u)
            /\ pageGets[u] = 0
            /\ scraped[u].how = "none"
            /\ CalledFrom(u) = {}
            /\ ChildrenOf(u) = {}

\* a finished run in which a link of the seed was denied below the maximal
\* depth
C4_Witness ==
    /\ Finished
    /\ \E u \in URLs :
        /\ Denied(u)
        /\ Recorded(u)
        /\ DepthOf(u) = 1
        /\ depth >= 2

(***************************************************************************)
(* C5: is_allowed_by_robots returns True if the path starts with some      *)
(* collected allow-prefix, else False if it starts with some collected     *)
(* disallow-prefix, else True.                                             *)
(***************************************************************************)
C5_AllowBeforeDisallow ==
    r_pc = "done" =>
        r_result =
            IF \E k \in 1..Len(allowed_paths) : StartsWith(r_url.path, allowed_paths[k])
            THEN TRUE
            ELSE IF \E k \in 1..Len(disallowed_paths) :
                        StartsWith(r_url.path, disallowed_paths[k])
            THEN FALSE
            ELSE TRUE

\* an evaluation in which an allow-prefix and a disallow-prefix both match
C5_Witness ==
    /\ r_pc = "done"
    /\ r_result = TRUE
    /\ \E k \in 1..Len(allowed_paths) :
        allowed_paths[k] # <<>> /\ StartsWith(r_url.path, allowed_paths[k])
    /\ \E k \in 1..Len(disallowed_paths) : StartsWith(r_url.path, disallowed_paths[k])

(***************************************************************************)
(* C6: at most one GET of robots.txt is issued per origin within a run,    *)
(* whether the first one succeeded or failed.                              *)
(***************************************************************************)
C6_OneRobotsGetPerOrigin ==
    \A b \in BaseUrls : robotsGets[b] <= 1

(***************************************************************************)
(* C7: crawl_site terminates: the top-level call returns to main.          *)
(***************************************************************************)
C7_Terminates == <>(phase = "returned")

\* a finished run over a cyclic link graph: two pages linking to each other,
\* one of them to itself as well
C7_Witness ==
    /\ phase = "returned"
    /\ \E u, v \in URLs :
        /\ u # v
        /\ v \in Elems(scraped[u].links)
        /\ u \in Elems(scraped[v].links)
        /\ u \in Elems(scraped[u].links)

(***************************************************************************)
(* C8: a URL whose robots.txt GET failed is treated as allowed: the run    *)
(* goes on, its page is fetched, and crawl_site reaches every link of it   *)
(* as without robots rules.                                                *)
(***************************************************************************)
C8_RobotsFailureAllows ==
    \A u \in URLs :
        robotsFor[u].how = "get_fail" =>
            /\ robotsFor[u].text = <<>>
            /\ ~Denied(u)
            /\ \/ pageGets[u] >= 1
               \/ stack # <<>> /\ Top.url = u /\ Top.pc = "scrape"
            /\ (Finished /\ DepthOf(u) < depth) =>
                    Elems(scraped[u].links) \subseteq visited_urls

\* a finished run in which a URL's robots GET failed, its page was fetched
\* and a link of it was accepted
C8_Witness ==
    /\ Finished
    /\ \E u \in URLs :
        /\ robotsFor[u].how = "get_fail"
        /\ scraped[u].how = "ok"
        /\ ChildrenOf(u) # {}

(***************************************************************************)
(* C9: a URL whose page GET failed stays visited and recorded, has no link *)
(* followed and no second GET, and the links of its parent that come after *)
(* it are still processed.                                                 *)
(***************************************************************************)
C9_PageFailureHaltsBranchOnly ==
    \A u \in URLs :
        scraped[u].how = "fail" =>
            /\ u \in visited_urls
            /\ Recorded(u)
            /\ pageGets[u] = 1
            /\ CalledFrom(u) = {}
            /\ ChildrenOf(u) = {}
            /\ \A k \in 1..Len(stack) :
                (stack[k].url = u /\ stack[k].pc = "loop") => stack[k].links = <<>>
            /\ (Finished /\ parent[u] # NoUrl) =>
                    Elems(scraped[parent[u]].links) \subseteq visited_urls

\* a finished run in which the page GET of a first link failed and the
\* link after it was then accepted from the same parent
C9_Witness ==
    /\ Finished
    /\ \E u, v \in URLs :
        /\ scraped[u].how = "fail"
        /\ parent[u] # NoUrl
        /\ Recorded(v)
        /\ parent[v] = parent[u]
        /\ scraped[parent[u]].links = <<u, v>>

(***************************************************************************)
(* C10: a negative depth or an invalid seed URL is a fatal fault raised    *)
(* before any network activity and any change to the visited set or the    *)
(* record list: the call never returns normally.                           *)
(***************************************************************************)
ConfigurationError == depth < 0 \/ ~ValidUrl(seed)

C10_ConfigurationFault ==
    ConfigurationError =>
        /\ ~Finished
        /\ visited_urls = {}
        /\ url_depth_list = <<>>
        /\ \A u \in URLs : pageGets[u] = 0
        /\ \A b \in BaseUrls : robotsGets[b] = 0


(***************************************************************************)
(* The link graph of the crawled site as the run has seen it: an edge from *)
(* a page to each link scrape_links returned for it.                       *)
(***************************************************************************)
LinksOf(u) == Elems(scraped[u].links)

\* the URLs within k link-hops of the seed
RECURSIVE Within(_)
Within(k) ==
    IF k = 0 THEN {seed}
    ELSE LET near == Within(k - 1) IN
         near \cup {l \in URLs : \E p \in near : l \in LinksOf(p)}

\* the length of the shortest chain of links from the seed to url
Distance(u) == CHOOSE k \in 0..Cardinality(URLs) :
                    /\ u \in Within(k)
                    /\ \A j \in 0..(k - 1) : u \notin Within(j)

(***************************************************************************)
(* C11 as stated: for every record (u, d) of a finished run, d is the      *)
(* length of the shortest chain of links from the seed to u in the crawled *)
(* link graph.                                                             *)
(***************************************************************************)
C11_DepthIsShortestChain ==
    Finished =>
        \A u \in URLs : Recorded(u) => DepthOf(u) = Distance(u)

(***************************************************************************)
(* C11: for every record (u, d), d is the length of the chain of links     *)
(* along which the traversal reached u: the seed has depth 0, every other  *)
(* URL is a link of the page it was reached from and lies one deeper than  *)
(* that page; so d is never below the length of the shortest chain.        *)
(***************************************************************************)
C11_DepthIsDiscoveryChain ==
    \A u \in URLs :
        Recorded(u) =>
            /\ parent[u] = NoUrl => u = seed /\ DepthOf(u) = 0
            /\ parent[u] # NoUrl =>
                    /\ Recorded(parent[u])
                    /\ u \in LinksOf(parent[u])
                    /\ DepthOf(u) = DepthOf(parent[u]) + 1
            /\ u \in Within(DepthOf(u))

\* a finished run in which a URL one link from the seed was first reached
\* through another page and so recorded at depth 2
C11_Witness ==
    /\ Finished
    /\ \E u \in URLs :
        /\ Recorded(u)
        /\ u \in LinksOf(seed)
        /\ u # seed
        /\ DepthOf(u) = 2


(***************************************************************************)
(* The recursion tree of a run: parent[u] is the page from whose loop the  *)
(* call that accepted u was made.                                          *)
(***************************************************************************)
\* the pages on the chain of calls that led to url, at most n of them
RECURSIVE AncestorsOf(_, _)
AncestorsOf(u, n) ==
    IF n = 0 \/ parent[u] = NoUrl THEN {}
    ELSE {parent[u]} \cup AncestorsOf(parent[u], n - 1)

\* the position of the first occurrence of link on the page of url
FirstLink(u, l) == CHOOSE k \in 1..Len(scraped[u].links) :
                        /\ scraped[u].links[k] = l
                        /\ \A j \in 1..(k - 1) : scraped[u].links[j] # l

(***************************************************************************)
(* C12: the traversal is depth-first in the order links appear on a page,  *)
(* and the record list is the pre-order of the recursion: the seed comes   *)
(* first, a URL is recorded before every URL discovered through it, the    *)
(* URLs recorded while a link is expanded directly follow that link in the *)
(* list, and links of one page are recorded in their order on the page.    *)
(***************************************************************************)
C12_PreOrderOfRecursion ==
    LET n        == Len(url_depth_list)
        UrlAt(k) == url_depth_list[k][1]
        \* the positions of the records made during the activation of UrlAt(k)
        Below(k) == {j \in 1..n : UrlAt(k) \in AncestorsOf(UrlAt(j), n)}
    IN
    /\ n > 0 => UrlAt(1) = seed /\ parent[seed] = NoUrl
    /\ \A k \in 1..n :
        /\ k > 1 => \E i \in 1..(k - 1) : UrlAt(i) = parent[UrlAt(k)]
        /\ Below(k) = (k + 1)..(k + Cardinality(Below(k)))
        /\ \A j \in (k + 1)..n :
                parent[UrlAt(j)] = parent[UrlAt(k)] =>
                    FirstLink(parent[UrlAt(k)], UrlAt(k)) <
                        FirstLink(parent[UrlAt(k)], UrlAt(j))

\* a finished run whose seed lists two links, both accepted from the seed,
\* where a URL found through the first link was recorded between them
C12_Witness ==
    /\ Finished
    /\ \E l1, l2, v \in URLs :
        /\ scraped[seed].links = <<l1, l2>>
        /\ parent[l1] = seed
        /\ parent[l2] = seed
        /\ parent[v] = l1
        /\ url_depth_list = <<<<seed, 0>>, <<l1, 1>>, <<v, 2>>, <<l2, 1>>>>


(***************************************************************************)
(* C13: invocations of the crawl in one process are isolated. A second     *)
(* invocation starts from a visited set that holds nothing of the first,   *)
(* so the URLs marked visited are at every moment those it has recorded    *)
(* itself, and when it has finished, at depth >= 0, its list begins with   *)
(* (seed, 0) as the list of a crawl in a fresh process does.               *)
(***************************************************************************)
C13_InvocationsIsolated ==
    run = 2 =>
        /\ \A u \in URLs : u \in visited_urls <=> Recorded(u)
        /\ (Finished /\ depth >= 0) =>
                /\ url_depth_list # <<>>
                /\ url_depth_list[1] = <<seed, 0>>


(***************************************************************************)
(* C14: the robots policy of an origin is fixed once first obtained in a   *)
(* run: every URL of the origin is judged against the same robots text, or *)
(* the same permissive default, as the first URL of that origin.           *)
(***************************************************************************)
C14_RobotsPolicyFixed ==
    \A u, v \in URLs :
        ( /\ robotsFor[u].how # "none"
          /\ robotsFor[v].how # "none"
          /\ BaseUrl(u) = BaseUrl(v) ) =>
            robotsFor[u].text = robotsFor[v].text


\* the whole of line after its first colon, trimmed
AfterFirstColon(line) ==
    LET k == CHOOSE i \in 1..Len(line) :
                 line[i] = COLON /\ \A j \in 1..(i - 1) : line[j] # COLON
    IN Strip(SubSeq(line, k + 1, Len(line)))

\* the line the loop of is_allowed_by_robots has just processed, stripped
LastLine == Strip(r_lines[r_i - 1])

\* the last line was one of the wildcard group starting with directive
Collected(directive) ==
    /\ r_pc = "parse"
    /\ r_i > 1
    /\ user_agent_allowed
    /\ ~StartsWith(LastLine, UA_STAR)
    /\ StartsWith(LastLine, directive)

(***************************************************************************)
(* C15: the value collected for a Disallow or Allow line is the whole of   *)
(* the line after its first colon, trimmed, later colons included:         *)
(* "Disallow: /a:b" yields the prefix "/a:b".                              *)
(***************************************************************************)
C15_ValueAfterFirstColon ==
    /\ Collected(DISALLOW) =>
            /\ disallowed_paths # <<>>
            /\ disallowed_paths[Len(disallowed_paths)] = AfterFirstColon(LastLine)
    /\ Collected(ALLOW) =>
            /\ allowed_paths # <<>>
            /\ allowed_paths[Len(allowed_paths)] = AfterFirstColon(LastLine)


\* the lines the loop of is_allowed_by_robots has processed so far
Processed == 1..(r_i - 1)

\* the processed lines that start with "User-agent: *"
StarLines == {k \in Processed : StartsWith(Strip(r_lines[k]), UA_STAR)}

\* the processed lines starting with directive that come after such a line
GroupLines(directive) ==
    {k \in Processed : /\ StartsWith(Strip(r_lines[k]), directive)
                       /\ \E j \in StarLines : j < k}

(***************************************************************************)
(* C16: the wildcard group never resets. The flag is set from the first    *)
(* line starting with "User-agent: *" on; Allow and Disallow lines before  *)
(* it are ignored, and every one after it is collected, also when a        *)
(* User-agent line naming another agent came in between.                   *)
(***************************************************************************)
C16_WildcardGroupNeverResets ==
    r_pc \in {"parse", "done"} =>
        /\ user_agent_allowed <=> StarLines # {}
        /\ Len(disallowed_paths) = Cardinality(GroupLines(DISALLOW))
        /\ Len(allowed_paths) = Cardinality(GroupLines(ALLOW))

\* an evaluation that collected, and denied by, a Disallow line following a
\* "User-agent: b" line that follows "User-agent: *"
C16_Witness ==
    /\ r_pc = "done"
    /\ r_lines = <<L_UaStar, L_UaBot, L_DisP>>
    /\ disallowed_paths = <<<<"/", "p">>>>
    /\ r_url = B
    /\ r_result = FALSE


C18_CoversAllWithinDepth ==
    (Finished /\ depth >= 0) =>
        \A u \in Within(depth) : Recorded(u)

(***************************************************************************)
(* C18: a finished crawl to depth >= 0 has recorded the seed and every     *)
(* link of every page that it recorded at a depth below the maximum,       *)
(* found allowed by robots and fetched successfully. (A URL within depth   *)
(* link-hops is still missed when the only pages linking to it were first  *)
(* reached over a longer chain and so recorded at the maximal depth.)      *)
(***************************************************************************)
C18_CoversLinksBelowMaxDepth ==
    (Finished /\ depth >= 0) =>
        /\ Recorded(seed)
        /\ \A p \in URLs :
            (Recorded(p) /\ DepthOf(p) < depth /\ scraped[p].how = "ok") =>
                \A l \in LinksOf(p) : Recorded(l)

\* a finished run in which a page one link from the seed was recorded at
\* the maximal depth 2, was fetched, and linked to a URL that was not
\* recorded, while the links of the pages above it all were
C18_Witness ==
    /\ Finished
    /\ depth = 2
    /\ \E p, u \in URLs :
        /\ p \in LinksOf(seed)
        /\ Recorded(p)
        /\ DepthOf(p) = 2
        /\ scraped[p].how = "ok"
        /\ u \in LinksOf(p)
        /\ ~Recorded(u)


(***************************************************************************)
(* C19: during a crawl started from an empty visited set with one list     *)
(* passed explicitly, between any two steps: the URLs of the record list   *)
(* are exactly the visited set, no URL has two records, and both only      *)
(* grow: a step keeps the records made so far, unchanged and in place, and *)
(* every URL marked visited.                                               *)
(***************************************************************************)
C19_ListAndVisitedGrowTogether ==
    /\ [](/\ {url_depth_list[k][1] : k \in 1..Len(url_depth_list)} = visited_urls
          /\ Cardinality(visited_urls) = Len(url_depth_list))
    /\ [][/\ visited_urls \subseteq visited_urls'
          /\ Len(url_depth_list) <= Len(url_depth_list')
          /\ SubSeq(url_depth_list', 1, Len(url_depth_list)) = url_depth_list]_vars

\* a finished run that accepted three URLs one after the other
C19_Witness ==
    /\ Finished
    /\ Len(url_depth_list) = 3
    /\ Cardinality(visited_urls) = 3


\* lines holds, after a line starting with "User-agent: *", a Disallow line
\* with nothing after the colon
EmptyDisallowIn(lines) ==
    \E k \in 1..Len(lines) :
        /\ Strip(lines[k]) = DISALLOW
        /\ \E j \in 1..(k - 1) : StartsWith(Strip(lines[j]), UA_STAR)

\* path starts with one of the prefixes
MatchesSome(path, prefixes) ==
    \E k \in 1..Len(prefixes) : StartsWith(path, prefixes[k])

\* the robots texts of the crawl with such a Disallow line, and the
\* allow-prefixes of each
EmptyDisallowTexts == {t \in RobotsTexts : EmptyDisallowIn(SplitLines(t))}

AllowPrefixes == [t \in RobotsTexts |-> ParseLines(ParseInit, SplitLines(t)).allow]

(***************************************************************************)
(* C20: a robots text whose wildcard group holds a Disallow line with an   *)
(* empty value makes is_allowed_by_robots deny every path that starts with *)
(* no allow-prefix; a crawl under such a text records such a URL, marks it *)
(* visited, and expands it not: no page GET, no call on a link of it.      *)
(***************************************************************************)
C20_EmptyDisallowDeniesAll ==
    /\ ( /\ r_pc = "done"
         /\ EmptyDisallowIn(r_lines)
         /\ ~MatchesSome(r_url.path, allowed_paths) ) => r_result = FALSE
    /\ \A u \in URLs :
        ( /\ robotsFor[u].how # "none"
          /\ robotsFor[u].text \in EmptyDisallowTexts
          /\ ~MatchesSome(u.path, AllowPrefixes[robotsFor[u].text]) ) =>
            /\ u \in visited_urls
            /\ Recorded(u)
            /\ pageGets[u] = 0
            /\ scraped[u].how = "none"
            /\ CalledFrom(u) = {}
            /\ ChildrenOf(u) = {}

\* a finished run over a site whose robots.txt is "User-agent: *",
\* "Allow:/p", "Disallow:": the GET of that text succeeded, the seed
\* https://h/ was denied, recorded and not expanded
C20_Witness ==
    /\ Finished
    /\ seed = A
    /\ depth >= 1
    /\ robotsFor[A] = [how |-> "get_ok", text |-> T_AllowDisEmpty]
    /\ url_depth_list = <<<<A, 0>>>>
    /\ pageGets[A] = 0

====
